---- MODULE Spec2Model ----
(***************************************************************************)
(* Weld line calculator: the section-property engine                       *)
(* (services/calculationService.ts, calculateWeldProperties) and the       *)
(* editor's memoised results value (App.tsx).                              *)
(*                                                                         *)
(* Numbers.  The engine computes with JavaScript numbers (IEEE-754         *)
(* binary64).  A number is modelled as a record [k, n, d]:                 *)
(*   k = "fin"  the rational n/d (d > 0, lowest terms);                    *)
(*   k = "big"  (n/d) * H, where H stands for a finite double so large     *)
(*              that H * H exceeds Number.MAX_VALUE (for instance 1e200)   *)
(*              and that adding a "fin" value to it returns it unchanged;  *)
(*   k = "inf"  +Infinity (n = 1) or -Infinity (n = -1);                   *)
(*   k = "nan"  NaN.                                                       *)
(* Arithmetic on "fin" values is exact: rounding to 53 bits is not         *)
(* modelled, overflow to Infinity and the NaN rules are.  Coordinates are  *)
(* drawn from a grid on which every segment length is rational, so that    *)
(* Math.sqrt is exact on every radicand the engine meets.                  *)
(***************************************************************************)
EXTENDS Integers, Sequences, FiniteSets, TLC

\* ------------------------------------------------------------------------
\* JavaScript numbers
\* ------------------------------------------------------------------------

Abs(i) == IF i < 0 THEN -i ELSE i

RECURSIVE GCD(_, _)
GCD(a, b) == IF b = 0 THEN a ELSE GCD(b, a % b)

\* The rational n/d in lowest terms, d # 0.
Reduced(n, d, g) == [k |-> "fin", n |-> n \div g, d |-> d \div g]
Rat(n, d) ==
    IF d < 0 THEN Reduced(-n, -d, GCD(Abs(n), Abs(d)))
    ELSE Reduced(n, d, GCD(Abs(n), Abs(d)))

\* (n/d) * H; a zero coefficient is the number 0.
Big(n, d) ==
    IF n = 0 THEN Rat(0, 1) ELSE [Rat(n, d) EXCEPT !.k = "big"]

Num(i) == Rat(i, 1)
NaN == [k |-> "nan", n |-> 0, d |-> 1]
Inf(s) == [k |-> "inf", n |-> s, d |-> 1]
Infinity == Inf(1)

IsNaN(a) == a.k = "nan"
IsZero(a) == a.k = "fin" /\ a.n = 0
\* -1, 0 or 1 (0 for NaN as well).
Sign(a) == IF a.n > 0 THEN 1 ELSE IF a.n < 0 THEN -1 ELSE 0

Neg(a) == [a EXCEPT !.n = -a.n]

\* The numerator and the denominator of n1/d1 + n2/d2 over the least common
\* denominator, g the greatest common divisor of d1 and d2.
SumNum(a, b, g) == a.n * (b.d \div g) + b.n * (a.d \div g)
SumDen(a, b, g) == (a.d \div g) * b.d

\* a + b
Add(a, b) ==
    CASE IsNaN(a) \/ IsNaN(b) -> NaN
      [] a.k = "inf" /\ b.k = "inf" -> IF a.n = b.n THEN a ELSE NaN
      [] a.k = "inf" -> a
      [] b.k = "inf" -> b
      [] a.k = "big" /\ b.k = "big" ->
            Big(SumNum(a, b, GCD(a.d, b.d)), SumDen(a, b, GCD(a.d, b.d)))
      [] a.k = "big" -> a
      [] b.k = "big" -> b
      [] OTHER -> Rat(SumNum(a, b, GCD(a.d, b.d)), SumDen(a, b, GCD(a.d, b.d)))

\* a - b
Sub(a, b) == Add(a, Neg(b))

\* a * b
Mul(a, b) ==
    CASE IsNaN(a) \/ IsNaN(b) -> NaN
      [] a.k = "inf" \/ b.k = "inf" ->
            IF IsZero(a) \/ IsZero(b) THEN NaN ELSE Inf(Sign(a) * Sign(b))
      [] a.k = "big" /\ b.k = "big" -> Inf(Sign(a) * Sign(b))
      [] a.k = "big" \/ b.k = "big" -> Big(a.n * b.n, a.d * b.d)
      [] OTHER -> Rat(a.n * b.n, a.d * b.d)

\* a / b.  The sign of a zero is not modelled: x / 0 takes the sign of x.
\* A "fin" value divided by a "big" one is of magnitude 1/H and is given as 0;
\* the engine only divides by 2, 3, 1000 and totalLength, none of them "big".
Div(a, b) ==
    CASE IsNaN(a) \/ IsNaN(b) -> NaN
      [] b.k = "inf" -> IF a.k = "inf" THEN NaN ELSE Num(0)
      [] IsZero(b) -> IF IsZero(a) THEN NaN ELSE Inf(Sign(a))
      [] a.k = "inf" -> Inf(Sign(a) * Sign(b))
      [] a.k = "big" /\ b.k = "big" -> Rat(a.n * b.d, a.d * b.n)
      [] a.k = "big" -> Big(a.n * b.d, a.d * b.n)
      [] b.k = "big" -> Num(0)
      [] OTHER -> Rat(a.n * b.d, a.d * b.n)

\* The integer square root of a natural number (exact on perfect squares).
ISqrt(i) == CHOOSE r \in 0..i : r * r <= i /\ (r + 1) * (r + 1) > i

\* Math.sqrt.  Its argument in the engine is dx*dx + dy*dy: a "fin" value
\* that is not negative, or +Infinity.
Sqrt(a) ==
    CASE a.k = "inf" /\ a.n = 1 -> Infinity
      [] a.k = "fin" /\ a.n >= 0 -> Rat(ISqrt(a.n), ISqrt(a.d))
      [] OTHER -> NaN

\* n1/d1 < n2/d2 for rationals that are not negative, by their integer parts
\* and then the reciprocals of their fractional parts (no product is formed).
RECURSIVE LessFraction(_, _, _, _)
LessFraction(n1, d1, n2, d2) ==
    IF n1 \div d1 # n2 \div d2 THEN n1 \div d1 < n2 \div d2
    ELSE IF n2 % d2 = 0 THEN FALSE
    ELSE IF n1 % d1 = 0 THEN TRUE
    ELSE LessFraction(d2, n2 % d2, d1, n1 % d1)

\* a < b for two "fin" values
LessFinite(a, b) ==
    IF a.n < 0 /\ b.n < 0 THEN LessFraction(-b.n, b.d, -a.n, a.d)
    ELSE IF a.n < 0 \/ b.n < 0 THEN a.n < 0
    ELSE LessFraction(a.n, a.d, b.n, b.d)

\* a < b (false when either is NaN)
Less(a, b) ==
    /\ ~IsNaN(a) /\ ~IsNaN(b)
    /\ a # b
    /\ IF a.k = "fin" /\ b.k = "fin" THEN LessFinite(a, b)
       ELSE Sign(Sub(a, b)) < 0

\* Math.abs
MathAbs(a) == [a EXCEPT !.n = Abs(a.n)]

\* Math.min, Math.max
MathMin(a, b) ==
    IF IsNaN(a) \/ IsNaN(b) THEN NaN ELSE IF Less(b, a) THEN b ELSE a
MathMax(a, b) ==
    IF IsNaN(a) \/ IsNaN(b) THEN NaN ELSE IF Less(a, b) THEN b ELSE a

\* ------------------------------------------------------------------------
\* calculateWeldProperties
\* ------------------------------------------------------------------------

\* A node is [id, x, y], a line is [id, startNodeId, endNodeId]; the arrays
\* are sequences.  null is the engine's "no result".
null == [isNull |-> TRUE]
undefined == [isUndefined |-> TRUE]

MM3_TO_CM3_CONVERSION == 1000

\* nodeMap.get(id) ?? nodes[0]: a missing node replaced by the first one.
nodeMapGetOrFirst(nodes, id) ==
    IF \E i \in DOMAIN nodes : nodes[i].id = id
    THEN nodes[CHOOSE i \in DOMAIN nodes :
                 nodes[i].id = id /\ \A j \in DOMAIN nodes : nodes[j].id = id => j <= i]
    ELSE nodes[1]

\* nodes[id - 1]: the id taken for the (1-based) position in the array.
nodeMapGetByPosition(nodes, id) ==
    IF id \in DOMAIN nodes THEN nodes[id] ELSE undefined

\* nodeMap.get(id) of new Map(nodes.map(n => [n.id, n])): the last node with
\* that id, or undefined.
nodeMapGet(nodes, id) ==
    LET hits == {i \in DOMAIN nodes : nodes[i].id = id}
    IN  IF hits = {} THEN undefined
        ELSE nodes[CHOOSE i \in hits : \A j \in hits : j <= i]

\* if (!startNode || !endNode) continue;
MissingEndpoint(startNode, endNode) ==
    startNode = undefined \/ endNode = undefined

\* dx = x2 - x1; dy = y2 - y1; length = Math.sqrt(dx * dx + dy * dy)
Hypot(dx, dy) == Sqrt(Add(Mul(dx, dx), Mul(dy, dy)))

\* The length taken from the end point alone, the start not subtracted.
SegmentLengthFromOrigin(x1, y1, x2, y2) == Hypot(x2, y2)

\* dx = x2 + x1, dy = y2 + y1: the sign of the difference slipped.
SegmentLengthOfSum(x1, y1, x2, y2) == Hypot(Add(x2, x1), Add(y2, y1))

SegmentLength(x1, y1, x2, y2) == Hypot(Sub(x2, x1), Sub(y2, y1))

\* x1 + x2: the halving forgotten.
MidpointNotHalved(c1, c2) == Add(c1, c2)

\* (x1 + x2) / 2, the midpoint coordinate of a segment
Midpoint(c1, c2) == Div(Add(c1, c2), Num(2))

\* (y1*y1 + y1*y2 + y2*y2) * length / 2: the wrong constant of integration.
lineInertiaOxOverTwo(y1, y2, length) ==
    Div(Mul(Add(Add(Mul(y1, y1), Mul(y1, y2)), Mul(y2, y2)), length), Num(2))

\* (y1*y1 + y2*y2) * length / 3: the cross term forgotten.
lineInertiaOxWithoutCrossTerm(y1, y2, length) ==
    Div(Mul(Add(Mul(y1, y1), Mul(y2, y2)), length), Num(3))

\* (y1*y1 + y1*y2 + y2*y2) * length / 3
lineInertiaOx(y1, y2, length) ==
    Div(Mul(Add(Add(Mul(y1, y1), Mul(y1, y2)), Mul(y2, y2)), length), Num(3))

\* (x1*x1 + x1*x2 + x2*x2) / 3: the factor length forgotten.
lineInertiaOyWithoutLength(x1, x2, length) ==
    Div(Add(Add(Mul(x1, x1), Mul(x1, x2)), Mul(x2, x2)), Num(3))

\* (x1*x1 + x1*x2 + x2*x2) * length / 3
lineInertiaOy(x1, x2, length) ==
    Div(Mul(Add(Add(Mul(x1, x1), Mul(x1, x2)), Mul(x2, x2)), length), Num(3))

\* (x1*y1 + x2*y2 + x1*y2) * length / 3: one of the two mixed products,
\* not halved.
lineInertiaOxyOneMixedTerm(x1, y1, x2, y2, length) ==
    Div(Mul(Add(Add(Mul(x1, y1), Mul(x2, y2)), Mul(x1, y2)), length), Num(3))

\* (x1*y1 + x2*y2) * length / 3: the mixed term forgotten.
lineInertiaOxyWithoutMixedTerm(x1, y1, x2, y2, length) ==
    Div(Mul(Add(Mul(x1, y1), Mul(x2, y2)), length), Num(3))

\* (x1*y1 + x2*y2 + (x1*y2 + x2*y1)/2) * length / 3
lineInertiaOxy(x1, y1, x2, y2, length) ==
    Div(Mul(Add(Add(Mul(x1, y1), Mul(x2, y2)),
                Div(Add(Mul(x1, y2), Mul(x2, y1)), Num(2))),
            length),
        Num(3))

\* The accumulators before the loop.
InitialSums ==
    [totalLength |-> Num(0), sumLx |-> Num(0), sumLy |-> Num(0),
     totalInertiaOx |-> Num(0), totalInertiaOy |-> Num(0),
     totalInertiaOxy |-> Num(0)]

\* The rest of an iteration, for a line whose endpoints are (x1, y1) and
\* (x2, y2) and whose length is given: if (length === 0) continue; then the
\* six accumulations.
Accumulate(acc, x1, y1, x2, y2, length) ==
    IF IsZero(length) THEN acc
    ELSE [totalLength |-> Add(acc.totalLength, length),
          sumLx |-> Add(acc.sumLx, Mul(length, Midpoint(x1, x2))),
          sumLy |-> Add(acc.sumLy, Mul(length, Midpoint(y1, y2))),
          totalInertiaOx |->
              Add(acc.totalInertiaOx, lineInertiaOx(y1, y2, length)),
          totalInertiaOy |->
              Add(acc.totalInertiaOy, lineInertiaOy(x1, x2, length)),
          totalInertiaOxy |->
              Add(acc.totalInertiaOxy, lineInertiaOxy(x1, y1, x2, y2, length))]

\* An iteration, given the two map lookups.
Iteration(acc, startNode, endNode) ==
    IF MissingEndpoint(startNode, endNode) THEN acc
    ELSE Accumulate(acc, startNode.x, startNode.y, endNode.x, endNode.y,
                    SegmentLength(startNode.x, startNode.y, endNode.x, endNode.y))

\* One iteration of "for (const line of lines)".
LoopBody(acc, nodes, line) ==
    Iteration(acc, nodeMapGet(nodes, line.startNodeId),
              nodeMapGet(nodes, line.endNodeId))

\* The loop over lines[i..], in array order.
RECURSIVE LoopLines(_, _, _, _)
LoopLines(acc, nodes, lines, i) ==
    IF i > Len(lines) THEN acc
    ELSE LoopLines(LoopBody(acc, nodes, lines[i]), nodes, lines, i + 1)

\* let minX = 0, minY = 0, maxX = 0, maxY = 0: the box started at the origin.
EmptyBoxAtOrigin ==
    [minX |-> Num(0), minY |-> Num(0), maxX |-> Num(0), maxY |-> Num(0)]

\* let minX = Infinity, minY = Infinity, maxX = -Infinity, maxY = -Infinity
EmptyBox ==
    [minX |-> Infinity, minY |-> Infinity, maxX |-> Inf(-1), maxY |-> Inf(-1)]

\* nodes.forEach(node => { minX = Math.min(minX, node.x); ... }), from
\* nodes[i] on.
RECURSIVE BoundingBox(_, _, _)
BoundingBox(box, nodes, i) ==
    IF i > Len(nodes) THEN box
    ELSE BoundingBox([minX |-> MathMin(box.minX, nodes[i].x),
                      minY |-> MathMin(box.minY, nodes[i].y),
                      maxX |-> MathMax(box.maxX, nodes[i].x),
                      maxY |-> MathMax(box.maxY, nodes[i].y)],
                     nodes, i + 1)

\* if (lines.length === 0 || nodes.length === 0) return null;
EmptyInput(nodes, lines) == Len(lines) = 0 \/ Len(nodes) = 0

\* The check dropped: the divisions by totalLength always run.
NoLengthDropped(totalLength) == FALSE

\* if (totalLength === 0) return null;
NoLength(totalLength) == IsZero(totalLength)

\* The moment about the origin returned as it is, not moved to the centroid.
ParallelAxisNotApplied(totalInertiaO, totalLength, c1, c2) == totalInertiaO

\* centroidalInertia_mm3 = totalInertiaO - totalLength * c1 * c2
ParallelAxis(totalInertiaO, totalLength, c1, c2) ==
    Sub(totalInertiaO, Mul(Mul(totalLength, c1), c2))

\* The value divided by MM3_TO_CM3_CONVERSION twice.
ToCm3Twice(mm3) ==
    Div(Div(mm3, Num(MM3_TO_CM3_CONVERSION)), Num(MM3_TO_CM3_CONVERSION))

\* x_mm3 / MM3_TO_CM3_CONVERSION
ToCm3(mm3) == Div(mm3, Num(MM3_TO_CM3_CONVERSION))

\* The returned object, from the sums, the centroid and the bounding box.
ResultObject(acc, centroidX, centroidY, box) ==
    [centroid |-> [x |-> centroidX, y |-> centroidY],
     inertia |->
       [ixx |-> ToCm3(ParallelAxis(acc.totalInertiaOx, acc.totalLength,
                                   centroidY, centroidY)),
        iyy |-> ToCm3(ParallelAxis(acc.totalInertiaOy, acc.totalLength,
                                   centroidX, centroidX)),
        ixy |-> ToCm3(ParallelAxis(acc.totalInertiaOxy, acc.totalLength,
                                   centroidX, centroidY))],
     totalLength |-> acc.totalLength,
     extremeDistances |->
       [cTop |-> Sub(box.maxY, centroidY),
        cBottom |-> Sub(centroidY, box.minY),
        cLeft |-> Sub(centroidX, box.minX),
        cRight |-> Sub(box.maxX, centroidX)]]

\* The part of the function after the loop.
AfterLoop(acc, nodes) ==
    IF NoLength(acc.totalLength) THEN null
    ELSE ResultObject(acc, Div(acc.sumLx, acc.totalLength),
                      Div(acc.sumLy, acc.totalLength),
                      BoundingBox(EmptyBox, nodes, 1))

calculateWeldProperties(nodes, lines) ==
    IF EmptyInput(nodes, lines) THEN null
    ELSE AfterLoop(LoopLines(InitialSums, nodes, lines, 1), nodes)

\* App.tsx: const results = useMemo(() => { if (nodes.length < 2 ||
\* lines.length === 0) return null; return calculateWeldProperties(nodes,
\* lines) }), where engineResult is the value of that call.
EditorResults(nodes, lines, engineResult) ==
    IF Len(nodes) < 2 \/ Len(lines) = 0 THEN null ELSE engineResult

\* ------------------------------------------------------------------------
\* Verification page: the catalogue of examples and the manual formulas
\* ------------------------------------------------------------------------

Node(id, x, y) == [id |-> id, x |-> Num(x), y |-> Num(y)]
Line(id, s, e) == [id |-> id, startNodeId |-> s, endNodeId |-> e]

\* const verificationExamples: VerificationExample[] (description and image,
\* which are display only, left out)
verificationExamples ==
    << [id |-> "vertical-line", title |-> "Vertical Line Weld",
        nodes |-> <<Node(1, 0, 0), Node(2, 0, 100)>>,
        lines |-> <<Line(1, 1, 2)>>],
       [id |-> "horizontal-line", title |-> "Horizontal Line Weld",
        nodes |-> <<Node(1, 0, 0), Node(2, 100, 0)>>,
        lines |-> <<Line(1, 1, 2)>>],
       [id |-> "tee-joint", title |-> "L-Shape Weld",
        nodes |-> <<Node(1, 0, 0), Node(2, 0, 100), Node(3, 100, 0)>>,
        lines |-> <<Line(1, 1, 2), Line(2, 1, 3)>>],
       [id |-> "two-vertical-lines", title |-> "Two Vertical Lines",
        nodes |-> <<Node(1, 0, 0), Node(2, 0, 100), Node(3, 50, 0),
                    Node(4, 50, 100)>>,
        lines |-> <<Line(1, 1, 2), Line(2, 3, 4)>>],
       [id |-> "two-horizontal-lines", title |-> "Two Horizontal Lines",
        nodes |-> <<Node(1, 0, 0), Node(2, 100, 0), Node(3, 0, 50),
                    Node(4, 100, 50)>>,
        lines |-> <<Line(1, 1, 2), Line(2, 3, 4)>>],
       [id |-> "c-shape", title |-> "C-Shape Weld",
        nodes |-> <<Node(1, 0, 0), Node(2, 50, 0), Node(3, 0, 100),
                    Node(4, 50, 100)>>,
        lines |-> <<Line(1, 1, 2), Line(2, 1, 3), Line(3, 3, 4)>>],
       [id |-> "rectangle", title |-> "Rectangular Weld",
        nodes |-> <<Node(1, 0, 0), Node(2, 100, 0), Node(3, 100, 50),
                    Node(4, 0, 50)>>,
        lines |-> <<Line(1, 1, 2), Line(2, 2, 3), Line(3, 3, 4),
                    Line(4, 4, 1)>>] >>

\* Math.pow(a, e) for a natural exponent
RECURSIVE MathPow(_, _)
MathPow(a, e) == IF e = 0 THEN Num(1) ELSE Mul(a, MathPow(a, e - 1))

\* An entry of ManualCalculations: the label and the numeric result (the
\* formula and substitution texts are display only).
Calc(label, result) == [label |-> label, result |-> result]

\* const calcs: ManualCalculations = {}
EmptyCalcs == <<>>

\* case 'vertical-line': const d = 100
VerticalLineCalcs(d) ==
    [centroidX |-> Calc("Centroid X", Num(0)),
     centroidY |-> Calc("Centroid Y", Div(d, Num(2))),
     Ixx |-> Calc("Moment of Inertia Ixx", Div(MathPow(d, 3), Num(12))),
     Iyy |-> Calc("Moment of Inertia Iyy", Num(0)),
     Ixy |-> Calc("Product of Inertia Ixy", Num(0))]

\* case 'horizontal-line': const b = 100
HorizontalLineCalcs(b) ==
    [centroidX |-> Calc("Centroid X", Div(b, Num(2))),
     centroidY |-> Calc("Centroid Y", Num(0)),
     Ixx |-> Calc("Moment of Inertia Ixx", Num(0)),
     Iyy |-> Calc("Moment of Inertia Iyy", Div(MathPow(b, 3), Num(12))),
     Ixy |-> Calc("Product of Inertia Ixy", Num(0))]

\* case 'tee-joint', after cX and cY: the parallel-axis sums of the vertical
\* and the horizontal part.
TeeJointFrom(b, d, cX, cY) ==
    [centroidX |-> Calc("Centroid X", cX),
     centroidY |-> Calc("Centroid Y", cY),
     Ixx |-> Calc("Moment of Inertia Ixx",
                  Add(Add(Div(MathPow(d, 3), Num(12)),
                          Mul(d, MathPow(Sub(Div(d, Num(2)), cY), 2))),
                      Add(Num(0), Mul(b, MathPow(Sub(Num(0), cY), 2))))),
     Iyy |-> Calc("Moment of Inertia Iyy",
                  Add(Add(Num(0), Mul(d, MathPow(Sub(Num(0), cX), 2))),
                      Add(Div(MathPow(b, 3), Num(12)),
                          Mul(b, MathPow(Sub(Div(b, Num(2)), cX), 2))))),
     Ixy |-> Calc("Product of Inertia Ixy",
                  Add(Add(Num(0), Mul(Mul(d, Sub(Num(0), cX)),
                                      Sub(Div(d, Num(2)), cY))),
                      Add(Num(0), Mul(Mul(b, Sub(Div(b, Num(2)), cX)),
                                      Sub(Num(0), cY)))))]

\* case 'tee-joint': const b = 100, d = 100; cX = b^2 / (2 * (b + d)),
\* cY = d^2 / (2 * (b + d))
TeeJointCalcs(b, d) ==
    TeeJointFrom(b, d, Div(MathPow(b, 2), Mul(Num(2), Add(b, d))),
                 Div(MathPow(d, 2), Mul(Num(2), Add(b, d))))

\* case 'two-vertical-lines': const b = 50, d = 100
TwoVerticalLinesCalcs(b, d) ==
    [centroidX |-> Calc("Centroid X", Div(b, Num(2))),
     centroidY |-> Calc("Centroid Y", Div(d, Num(2))),
     Ixx |-> Calc("Moment of Inertia Ixx", Div(MathPow(d, 3), Num(6))),
     Iyy |-> Calc("Moment of Inertia Iyy",
                  Mul(Num(2), Mul(d, MathPow(Div(b, Num(2)), 2)))),
     Ixy |-> Calc("Product of Inertia Ixy", Num(0))]

\* case 'two-horizontal-lines': const b = 100, d = 50
TwoHorizontalLinesCalcs(b, d) ==
    [centroidX |-> Calc("Centroid X", Div(b, Num(2))),
     centroidY |-> Calc("Centroid Y", Div(d, Num(2))),
     Ixx |-> Calc("Moment of Inertia Ixx",
                  Div(Mul(b, MathPow(d, 2)), Num(2))),
     Iyy |-> Calc("Moment of Inertia Iyy",
                  Mul(Num(2), Div(MathPow(b, 3), Num(12)))),
     Ixy |-> Calc("Product of Inertia Ixy", Num(0))]

\* case 'c-shape', after cX: the spine and the two flanges.
CShapeFrom(b, d, cX) ==
    [centroidX |-> Calc("Centroid X", cX),
     centroidY |-> Calc("Centroid Y", Div(d, Num(2))),
     Ixx |-> Calc("Moment of Inertia Ixx",
                  Div(Mul(MathPow(d, 2), Add(d, Mul(Num(6), b))), Num(12))),
     Iyy |-> Calc("Moment of Inertia Iyy",
                  Add(Add(Num(0), Mul(d, MathPow(Sub(Num(0), cX), 2))),
                      Mul(Num(2),
                          Add(Div(MathPow(b, 3), Num(12)),
                              Mul(b, MathPow(Sub(Div(b, Num(2)), cX), 2)))))),
     Ixy |-> Calc("Product of Inertia Ixy", Num(0))]

\* case 'c-shape': const b = 50, d = 100; cX = b^2 / (2 * b + d)
CShapeCalcs(b, d) ==
    CShapeFrom(b, d, Div(MathPow(b, 2), Add(Mul(Num(2), b), d)))

\* case 'rectangle': const b = 100, d = 50
RectangleCalcs(b, d) ==
    [centroidX |-> Calc("Centroid X", Div(b, Num(2))),
     centroidY |-> Calc("Centroid Y", Div(d, Num(2))),
     Ixx |-> Calc("Moment of Inertia Ixx",
                  Div(Mul(MathPow(d, 2), Add(Mul(Num(3), b), d)), Num(6))),
     Iyy |-> Calc("Moment of Inertia Iyy",
                  Div(Mul(MathPow(b, 2), Add(Mul(Num(3), d), b)), Num(6))),
     Ixy |-> Calc("Product of Inertia Ixy", Num(0))]

\* The switch without its case 'c-shape'.
performManualCalculationsWithoutCShape(example) ==
    CASE example.id = "vertical-line" -> VerticalLineCalcs(Num(100))
      [] example.id = "horizontal-line" -> HorizontalLineCalcs(Num(100))
      [] example.id = "tee-joint" -> TeeJointCalcs(Num(100), Num(100))
      [] example.id = "two-vertical-lines" ->
            TwoVerticalLinesCalcs(Num(50), Num(100))
      [] example.id = "two-horizontal-lines" ->
            TwoHorizontalLinesCalcs(Num(100), Num(50))
      [] example.id = "rectangle" -> RectangleCalcs(Num(100), Num(50))
      [] OTHER -> EmptyCalcs

\* switch (example.id) { ... } return calcs: an id with no case leaves calcs
\* empty.
performManualCalculations(example) ==
    CASE example.id = "vertical-line" -> VerticalLineCalcs(Num(100))
      [] example.id = "horizontal-line" -> HorizontalLineCalcs(Num(100))
      [] example.id = "tee-joint" -> TeeJointCalcs(Num(100), Num(100))
      [] example.id = "two-vertical-lines" ->
            TwoVerticalLinesCalcs(Num(50), Num(100))
      [] example.id = "two-horizontal-lines" ->
            TwoHorizontalLinesCalcs(Num(100), Num(50))
      [] example.id = "c-shape" -> CShapeCalcs(Num(50), Num(100))
      [] example.id = "rectangle" -> RectangleCalcs(Num(100), Num(50))
      [] OTHER -> EmptyCalcs

\* The tolerance 1e-9 of the comparisons.
Tolerance == Rat(1, 1000000000)

\* Math.abs(app - manual) <= 1e-9: equality let through.
IsMatchOrEqual(app, manual) == ~Less(Tolerance, MathAbs(Sub(app, manual)))

\* Math.abs(app - manual) < 1e-9
IsMatch(app, manual) == Less(MathAbs(Sub(app, manual)), Tolerance)

\* The manual value compared as it is, in mm^3.
ManualNotConverted(mm3) == mm3

\* manualCalcs.Ixx.result / 1000 (and Iyy, Ixy in the report)
ManualInCm3(mm3) == Div(mm3, Num(1000))

\* An entry of summaryData.  The property names are 'Centroid X (mm)',
\* 'Centroid Y (mm)' and 'Ixx (cm3)' (the source writes the exponent as a
\* superscript).
SummaryResult(exampleTitle, property, appValue, manualValue) ==
    [exampleTitle |-> exampleTitle, property |-> property,
     appValue |-> appValue, manualValue |-> manualValue,
     isMatch |-> IsMatch(appValue, manualValue)]

\* if (appResults && manualCalcs) { data.push(...); data.push(...);
\* data.push(...) }: manualCalcs is an object, always truthy.
SummaryOf(example, appResults, manualCalcs) ==
    IF appResults = null THEN <<>>
    ELSE << SummaryResult(example.title, "Centroid X (mm)",
                          appResults.centroid.x, manualCalcs.centroidX.result),
            SummaryResult(example.title, "Centroid Y (mm)",
                          appResults.centroid.y, manualCalcs.centroidY.result),
            SummaryResult(example.title, "Ixx (cm3)", appResults.inertia.ixx,
                          ManualInCm3(manualCalcs.Ixx.result)) >>

\* Reading .result of an entry that manualCalcs does not have throws a
\* TypeError: in the effect for the three entries it reads, in PrintView for
\* the five.
SummaryKeys == {"centroidX", "centroidY", "Ixx"}
ReportKeys == {"centroidX", "centroidY", "Ixx", "Iyy", "Ixy"}
Throws(appResults, manualCalcs, keys) ==
    appResults # null /\ ~(keys \subseteq DOMAIN manualCalcs)

\* verificationExamples.forEach(example => ...) from the i-th example on:
\* the entries pushed to data.
RECURSIVE SummaryFrom(_)
SummaryFrom(i) ==
    IF i > Len(verificationExamples) THEN <<>>
    ELSE SummaryOf(verificationExamples[i],
                   calculateWeldProperties(verificationExamples[i].nodes,
                                           verificationExamples[i].lines),
                   performManualCalculations(verificationExamples[i]))
         \o SummaryFrom(i + 1)

\* Whether the effect throws before it reaches setSummaryData(data).
EffectThrows ==
    \E i \in DOMAIN verificationExamples :
        Throws(calculateWeldProperties(verificationExamples[i].nodes,
                                       verificationExamples[i].lines),
               performManualCalculations(verificationExamples[i]), SummaryKeys)

\* The component VerificationResultRow: what it shows.
VerificationResultRow(label, app, manual) ==
    [label |-> label, app |-> app, manual |-> manual,
     isMatch |-> IsMatch(app, manual)]

\* The five rows of "Results Comparison" in PrintView.
ComparisonRows(appResults, manualCalcs) ==
    << VerificationResultRow("Centroid X (mm)", appResults.centroid.x,
                             manualCalcs.centroidX.result),
       VerificationResultRow("Centroid Y (mm)", appResults.centroid.y,
                             manualCalcs.centroidY.result),
       VerificationResultRow("Ixx (cm3)", appResults.inertia.ixx,
                             ManualInCm3(manualCalcs.Ixx.result)),
       VerificationResultRow("Iyy (cm3)", appResults.inertia.iyy,
                             ManualInCm3(manualCalcs.Iyy.result)),
       VerificationResultRow("Ixy (cm3)", appResults.inertia.ixy,
                             ManualInCm3(manualCalcs.Ixy.result)) >>

\* What handleDownload renders into the temporary container: PrintView with
\* settings.verificationData = {example, manualCalcs}.  A render that throws
\* leaves the container empty (no rows).
VerificationReport(example, appResults, manualCalcs) ==
    [example |-> example.id, results |-> appResults,
     manualCalcs |-> manualCalcs,
     rows |-> IF Throws(appResults, manualCalcs, ReportKeys) THEN <<>>
              ELSE ComparisonRows(appResults, manualCalcs)]

\* ------------------------------------------------------------------------
\* Inputs
\* ------------------------------------------------------------------------

MaxNodes == 3
MaxLines == 2
MaxSegmentLength == 100
MaxSaved == 2

\* Coordinates (mm).  Every two points of XCoords \X YCoords are at a
\* rational distance (3, 4 or 5).
XCoords == {Num(0), Num(3)}
YCoords == {Num(0), Num(4)}

\* The same grid with one column moved out to x = H.
WideXCoords == {Num(0), Big(1, 1)}

\* (x, y) pairs in the order of x, then of y.
PointLeq(p, q) == Less(p[1], q[1]) \/ (p[1] = q[1] /\ ~Less(q[2], p[2]))

\* Node arrays over a coordinate grid: at most MaxNodes nodes, listed in the
\* order of their coordinates (two nodes may share a point); the node at
\* index i has id i.
NodeArraysOver(xs, ys) ==
    UNION {{[i \in 1..n |-> [id |-> i, x |-> f[i][1], y |-> f[i][2]]] :
             f \in {g \in [1..n -> xs \X ys] :
                      \A i \in 1..(n - 1) : PointLeq(g[i], g[i + 1])}} :
           n \in 0..MaxNodes}

\* The endpoint pairs a line is drawn from: every pair of distinct possible
\* node ids, a line from node 1 to itself, and a line whose start is the id
\* of no node (MaxNodes + 1).  A pair whose ids exceed the number of nodes of
\* the input dangles as well.
LineChoices ==
    LET pairs == {<<s, e>> : s \in 1..MaxNodes, e \in 1..MaxNodes}
    IN  {c \in pairs : c[1] < c[2]} \cup {<<1, 1>>, <<MaxNodes + 1, 1>>}

PairLeq(c1, c2) == c1[1] < c2[1] \/ (c1[1] = c2[1] /\ c1[2] <= c2[2])

\* Line arrays of at most MaxLines lines, listed in the order of their
\* endpoint pairs.
LineArrays ==
    UNION {{[i \in 1..n |-> [id |-> i, startNodeId |-> f[i][1],
                             endNodeId |-> f[i][2]]] :
             f \in {g \in [1..n -> LineChoices] :
                      \A i \in 1..(n - 1) : PairLeq(g[i], g[i + 1])}} :
           n \in 0..MaxLines}

\* A single segment of length d from the origin, up the y axis or along the
\* x axis.
VerticalSegment(d) ==
    [nodes |-> <<Node(1, 0, 0), Node(2, 0, d)>>, lines |-> <<Line(1, 1, 2)>>]
HorizontalSegment(d) ==
    [nodes |-> <<Node(1, 0, 0), Node(2, d, 0)>>, lines |-> <<Line(1, 1, 2)>>]

\* The inputs of known shape: the examples of the catalogue and the single
\* segments of every length up to MaxSegmentLength.
ShapeInputs ==
    {[nodes |-> verificationExamples[i].nodes,
      lines |-> verificationExamples[i].lines] : i \in DOMAIN verificationExamples}
    \cup {VerticalSegment(d) : d \in 1..MaxSegmentLength}
    \cup {HorizontalSegment(d) : d \in 1..MaxSegmentLength}

\* ------------------------------------------------------------------------
\* State
\* ------------------------------------------------------------------------

\* The engine and its caller: the input of the last call (in the editor, the
\* nodes and lines state of App), its result, the editor's results value, and
\* the input and result of the call before it when the input was derived
\* from that one.
VARIABLES nodes, lines, pc, result, results, prev, op

\* The editor (App): drawingMode, lineStartNodeId (0 for null: the code tests
\* it with !lineStartNodeId, and ids are clock values, never 0),
\* selectedElement, and the clock that Date.now() reads.
VARIABLES drawingMode, lineStartNodeId, selectedElement, now

\* The verification page: summaryData and isDownloading of VerificationPage,
\* the report PrintView renders for a download, the files saved by pdf.save,
\* and a VerificationResultRow rendered on its own.
VARIABLES summaryData, isDownloading, report, saved, row

\* The PDF downloads: view and isDownloading of App, and how far the running
\* call of App's handleDownloadPdf and of VerificationPage's handleDownload has
\* got.
VARIABLES view, appIsDownloading, pdfCall, verificationCall

engineVars == <<nodes, lines, pc, result, results, prev, op>>
editorVars == <<drawingMode, lineStartNodeId, selectedElement, now>>
downloadVars == <<view, appIsDownloading, pdfCall, verificationCall>>
verificationVars ==
    <<summaryData, isDownloading, report, saved, row, downloadVars>>

vars == <<engineVars, editorVars, verificationVars>>

NoCall == [nodes |-> <<>>, lines |-> <<>>, result |-> null]

\* No call of the engine yet.
EngineIdle ==
    /\ pc = "input"
    /\ result = null
    /\ results = null
    /\ prev = NoCall
    /\ op = [kind |-> "none"]

\* The useState initial values of App.
EditorIdle ==
    /\ drawingMode = "node"
    /\ lineStartNodeId = 0
    /\ selectedElement = null
    /\ now = 1

\* The useState initial values of VerificationPage; nothing rendered or saved.
VerificationIdle ==
    /\ summaryData = <<>>
    /\ isDownloading = FALSE
    /\ report = null
    /\ saved = {}
    /\ row = null

\* No call of a download handler.
NoDownload == [at |-> "idle", imgHeight |-> 0, pages |-> 0, mounted |-> FALSE]

\* The useState initial value of isDownloading of App, and no download
\* running, on the view v.
DownloadIdle(v) ==
    /\ view = v
    /\ appIsDownloading = FALSE
    /\ pdfCall = NoDownload
    /\ verificationCall = NoDownload

InitOver(xs, ys) ==
    /\ nodes \in NodeArraysOver(xs, ys)
    /\ lines \in LineArrays
    /\ EngineIdle
    /\ EditorIdle
    /\ VerificationIdle
    /\ DownloadIdle("editor")

Init == InitOver(XCoords, YCoords)

InitWide == InitOver(WideXCoords, YCoords)

InitShapes ==
    /\ \E input \in ShapeInputs : nodes = input.nodes /\ lines = input.lines
    /\ EngineIdle
    /\ EditorIdle
    /\ VerificationIdle
    /\ DownloadIdle("editor")

\* A call of the engine, and the editor's recomputation, on the input.
Calculate ==
    /\ pc = "input"
    /\ result' = calculateWeldProperties(nodes, lines)
    /\ results' = EditorResults(nodes, lines, result')
    /\ pc' = "done"
    /\ UNCHANGED <<nodes, lines, prev, op, editorVars, verificationVars>>

\* A second call on an input derived from the first one.
Recalculate(newNodes, newLines, how) ==
    /\ pc = "done"
    /\ prev' = [nodes |-> nodes, lines |-> lines, result |-> result]
    /\ nodes' = newNodes
    /\ lines' = newLines
    /\ result' = calculateWeldProperties(newNodes, newLines)
    /\ results' = EditorResults(newNodes, newLines, result')
    /\ op' = how
    /\ pc' = "related"
    /\ UNCHANGED <<editorVars, verificationVars>>

\* Whether some node has the id (the line endpoint resolves).
HasNode(ns, id) == \E i \in DOMAIN ns : ns[i].id = id

\* The node a resolving id stands for.
NodeOf(ns, id) ==
    ns[CHOOSE i \in DOMAIN ns :
         ns[i].id = id /\ \A j \in DOMAIN ns : ns[j].id = id => j <= i]

Dangling(ns, l) == ~HasNode(ns, l.startNodeId) \/ ~HasNode(ns, l.endNodeId)

\* Both endpoints resolve, to the same coordinates.
ZeroLength(ns, l) ==
    /\ ~Dangling(ns, l)
    /\ NodeOf(ns, l.startNodeId).x = NodeOf(ns, l.endNodeId).x
    /\ NodeOf(ns, l.startNodeId).y = NodeOf(ns, l.endNodeId).y

\* The same nodes, the dangling lines taken out.
RemoveDanglingLines ==
    /\ \E i \in DOMAIN lines : Dangling(nodes, lines[i])
    /\ Recalculate(nodes, SelectSeq(lines, LAMBDA l : ~Dangling(nodes, l)),
                   [kind |-> "removeDangling"])

\* The same nodes, the zero-length lines taken out.
RemoveZeroLengthLines ==
    /\ \E i \in DOMAIN lines : ZeroLength(nodes, lines[i])
    /\ Recalculate(nodes, SelectSeq(lines, LAMBDA l : ~ZeroLength(nodes, l)),
                   [kind |-> "removeZeroLength"])

NewLine(id, s, e) == [id |-> id, startNodeId |-> s, endNodeId |-> e]

\* The same nodes, one more line between two nodes at the same coordinates
\* (or from a node to itself).
AddZeroLengthLine ==
    \E i, j \in DOMAIN nodes :
        /\ i <= j
        /\ ZeroLength(nodes, NewLine(0, nodes[i].id, nodes[j].id))
        /\ Recalculate(nodes,
                       Append(lines,
                              NewLine(Len(lines) + 1, nodes[i].id, nodes[j].id)),
                       [kind |-> "addZeroLength"])

\* Where a node no line refers to is added: outside the grid on either side,
\* and inside it.
IsolatedPoints ==
    {<<Num(-2), Num(-1)>>, <<Num(1), Num(2)>>, <<Num(7), Num(9)>>}

\* The same lines, one more node, which no line refers to.
AddIsolatedNode ==
    \E p \in IsolatedPoints :
        Recalculate(Append(nodes, [id |-> MaxNodes + 2, x |-> p[1], y |-> p[2]]),
                    lines, [kind |-> "addIsolatedNode", x |-> p[1], y |-> p[2]])

Shifts == {<<Num(2), Num(0)>>, <<Num(-3), Num(-4)>>, <<Rat(1, 2), Num(5)>>}

\* The same lines, every node moved by (a, b).
Translate ==
    \E v \in Shifts :
        Recalculate([i \in DOMAIN nodes |->
                       [nodes[i] EXCEPT !.x = Add(@, v[1]), !.y = Add(@, v[2])]],
                    lines, [kind |-> "translate", a |-> v[1], b |-> v[2]])

Factors == {Num(2), Num(3), Rat(1, 2)}

\* The same lines, every node coordinate multiplied by s.
Scale ==
    \E s \in Factors :
        Recalculate([i \in DOMAIN nodes |->
                       [nodes[i] EXCEPT !.x = Mul(@, s), !.y = Mul(@, s)]],
                    lines, [kind |-> "scale", s |-> s])

\* The permutations of 1..n other than the identity.
Rearrangements(n) ==
    {p \in [1..n -> 1..n] :
        /\ \A i, j \in 1..n : p[i] = p[j] => i = j
        /\ \E i \in 1..n : p[i] # i}

Rearranged(seq, p) == [i \in DOMAIN seq |-> seq[p[i]]]

\* The same nodes in another order (ids are pairwise distinct), the same lines.
PermuteNodes ==
    \E p \in Rearrangements(Len(nodes)) :
        Recalculate(Rearranged(nodes, p), lines, [kind |-> "permuteNodes"])

\* The same lines in another order, the same nodes.
PermuteLines ==
    \E p \in Rearrangements(Len(lines)) :
        Recalculate(nodes, Rearranged(lines, p), [kind |-> "permuteLines"])

\* The line with its start and end exchanged.
Swapped(l) == [l EXCEPT !.startNodeId = l.endNodeId, !.endNodeId = l.startNodeId]

\* The same nodes, the lines of a subset with their ends exchanged.
SwapEnds ==
    \E which \in SUBSET DOMAIN lines :
        /\ which # {}
        /\ Recalculate(nodes,
                       [i \in DOMAIN lines |->
                           IF i \in which THEN Swapped(lines[i]) ELSE lines[i]],
                       [kind |-> "swapEnds", which |-> which])

Next == Calculate

Spec == Init /\ [][Next]_vars

\* Inputs with coordinates whose squares overflow.
SpecWide == InitWide /\ [][Next]_vars

NextDangling == Calculate \/ RemoveDanglingLines
SpecDangling == Init /\ [][NextDangling]_vars

NextZeroLength == Calculate \/ AddZeroLengthLine \/ RemoveZeroLengthLines
SpecZeroLength == Init /\ [][NextZeroLength]_vars

NextIsolated == Calculate \/ AddIsolatedNode
SpecIsolated == Init /\ [][NextIsolated]_vars

NextTranslate == Calculate \/ Translate
SpecTranslate == Init /\ [][NextTranslate]_vars

NextScale == Calculate \/ Scale
SpecScale == Init /\ [][NextScale]_vars

\* Calls on the inputs of known shape.
SpecShapes == InitShapes /\ [][Next]_vars

NextPermute == Calculate \/ PermuteNodes \/ PermuteLines
SpecPermute == Init /\ [][NextPermute]_vars

NextSwap == Calculate \/ SwapEnds
SpecSwap == Init /\ [][NextSwap]_vars

\* ------------------------------------------------------------------------
\* The verification page
\* ------------------------------------------------------------------------

\* VerificationPage before its first effect has run.
InitVerification ==
    /\ nodes = <<>>
    /\ lines = <<>>
    /\ pc = "mounting"
    /\ result = null
    /\ results = null
    /\ prev = NoCall
    /\ op = [kind |-> "none"]
    /\ EditorIdle
    /\ VerificationIdle
    /\ DownloadIdle("verification")

\* useEffect(() => { ...; setSummaryData(data) }, []): the whole effect.  An
\* effect that throws never sets the summary and takes the page down.
Mount ==
    /\ pc = "mounting"
    /\ IF EffectThrows
       THEN pc' = "crashed" /\ summaryData' = <<>>
       ELSE pc' = "mounted" /\ summaryData' = SummaryFrom(1)
    /\ UNCHANGED <<nodes, lines, result, results, prev, op, editorVars,
                   isDownloading, report, saved, row, downloadVars>>

\* handleDownload(example) up to the first await, given the engine's result:
\* without a result it alerts and returns; with one it renders the report
\* into the temporary container.
HandleDownload(example, appResults) ==
    IF appResults = null
    THEN UNCHANGED <<isDownloading, report>>
    ELSE /\ isDownloading' = TRUE
         /\ report' = VerificationReport(example, appResults,
                                         performManualCalculations(example))

\* A click on "Download Verification PDF" of a card (disabled while
\* isDownloading).  At most MaxSaved different files are downloaded.
DownloadStart ==
    /\ pc = "mounted"
    /\ ~isDownloading
    /\ \E i \in DOMAIN verificationExamples :
         /\ Cardinality(saved \cup {verificationExamples[i].id}) <= MaxSaved
         /\ HandleDownload(verificationExamples[i],
                           calculateWeldProperties(verificationExamples[i].nodes,
                                                   verificationExamples[i].lines))
    /\ UNCHANGED <<engineVars, editorVars, summaryData, saved, row,
                   downloadVars>>

\* The rest of handleDownload: the page images are added, the file
\* verification-<id>.pdf is saved, the container is removed and
\* setIsDownloading(false).
DownloadFinish ==
    /\ pc = "mounted"
    /\ isDownloading
    /\ report # null
    /\ saved' = saved \cup {report.example}
    /\ report' = null
    /\ isDownloading' = FALSE
    /\ UNCHANGED <<engineVars, editorVars, summaryData, row, downloadVars>>

\* The values a VerificationResultRow is rendered with on its own: equal,
\* half the tolerance apart, the tolerance apart and far apart.
RowValues == {Num(0), Rat(1, 2000000000), Rat(1, 1000000000), Num(1)}

\* VerificationResultRow rendered with an app and a manual value.
RenderRow ==
    /\ pc = "mounted"
    /\ row = null
    /\ \E app, manual \in RowValues :
           row' = VerificationResultRow("Value", app, manual)
    /\ UNCHANGED <<engineVars, editorVars, summaryData, isDownloading, report,
                   saved, downloadVars>>

NextVerification == Mount \/ DownloadStart \/ DownloadFinish \/ RenderRow
SpecVerification == InitVerification /\ [][NextVerification]_vars

\* ------------------------------------------------------------------------
\* The editor (App.tsx)
\* ------------------------------------------------------------------------

\* Math.round: the nearest integer, halves towards +Infinity.
MathRound(a) == Num((2 * a.n + a.d) \div (2 * a.d))

\* parseFloat(v.toFixed(2)): v to two decimals.
ToFixed2(v) == Div(MathRound(Mul(v, Num(100))), Num(100))

\* Math.round(c / gridSize) * gridSize
SnapCoordinate(c, gridSize) ==
    Mul(MathRound(Div(c, Num(gridSize))), Num(gridSize))

\* finalPoint of handleCanvasBackgroundClick
FinalPoint(point, snapToGrid, gridSize) ==
    IF snapToGrid
    THEN [x |-> SnapCoordinate(point.x, gridSize),
          y |-> SnapCoordinate(point.y, gridSize)]
    ELSE point

\* nodes.find(n => n.id === id): the first node with that id, or undefined.
nodesFind(ns, id) ==
    IF \E i \in DOMAIN ns : ns[i].id = id
    THEN ns[CHOOSE i \in DOMAIN ns :
              ns[i].id = id /\ \A j \in DOMAIN ns : ns[j].id = id => i <= j]
    ELSE undefined

\* One element of linesWithCoords.
LineWithCoords(ns, l) ==
    [id |-> l.id, startNodeId |-> l.startNodeId, endNodeId |-> l.endNodeId,
     start |-> nodesFind(ns, l.startNodeId), end |-> nodesFind(ns, l.endNodeId)]

\* linesWithCoords: the lines whose two endpoints are found, with them.
RECURSIVE linesWithCoordsFrom(_, _, _)
linesWithCoordsFrom(ns, ls, i) ==
    IF i > Len(ls) THEN <<>>
    ELSE (IF Dangling(ns, ls[i]) THEN <<>> ELSE <<LineWithCoords(ns, ls[i])>>)
         \o linesWithCoordsFrom(ns, ls, i + 1)

linesWithCoords(ns, ls) == linesWithCoordsFrom(ns, ls, 1)

\* t of distToSegment, clamped to [0, 1].
SegmentParameter(p, v, w, l2) ==
    MathMax(Num(0),
            MathMin(Num(1),
                    Div(Add(Mul(Sub(p.x, v.x), Sub(w.x, v.x)),
                            Mul(Sub(p.y, v.y), Sub(w.y, v.y))), l2)))

\* The distance of p from the point of the segment at parameter t.
DistanceAt(p, v, w, t) ==
    Hypot(Sub(p.x, Add(v.x, Mul(t, Sub(w.x, v.x)))),
          Sub(p.y, Add(v.y, Mul(t, Sub(w.y, v.y)))))

SquaredLength(v, w) ==
    Add(Mul(Sub(v.x, w.x), Sub(v.x, w.x)), Mul(Sub(v.y, w.y), Sub(v.y, w.y)))

distToSegment(p, v, w) ==
    IF IsZero(SquaredLength(v, w)) THEN Hypot(Sub(p.x, v.x), Sub(p.y, v.y))
    ELSE DistanceAt(p, v, w, SegmentParameter(p, v, w, SquaredLength(v, w)))

\* distToSegment(finalPoint, line.start, line.end) < 5
NearLine(p, lwc) == Less(distToSegment(p, lwc.start, lwc.end), Num(5))

\* linesWithCoords.find(line => distToSegment(...) < 5): the first such line,
\* or undefined.
FirstNear(p, lwcs) ==
    IF \E i \in DOMAIN lwcs : NearLine(p, lwcs[i])
    THEN lwcs[CHOOSE i \in DOMAIN lwcs :
                /\ NearLine(p, lwcs[i])
                /\ \A j \in DOMAIN lwcs : NearLine(p, lwcs[j]) => i <= j]
    ELSE undefined

\* lines.some(line => (start === a && end === b) || (start === b && end === a))
lineExists(ls, a, b) ==
    \E i \in DOMAIN ls :
        \/ ls[i].startNodeId = a /\ ls[i].endNodeId = b
        \/ ls[i].startNodeId = b /\ ls[i].endNodeId = a

\* const newNode = { id: Date.now(), x: parseFloat(finalPoint.x.toFixed(2)),
\* y: parseFloat(finalPoint.y.toFixed(2)) }
NewNode(id, p) == [id |-> id, x |-> ToFixed2(p.x), y |-> ToFixed2(p.y)]

Selected(type, id) == [type |-> type, id |-> id]

\* The clock stops at MaxClock; Date.now() + 2 is the largest id.
MaxClock == 2

\* Where the canvas is clicked, and where a node is moved to.  With the grid
\* of 10 the click lands on (20, 0), without snapping on (15, 0): a node at
\* one is at distance 5, not less, from a node at the other.
ClickPoints == {[x |-> Num(15), y |-> Num(0)]}

\* The grid size chosen with the radio buttons (1, 5 or 10).
GridSizes == {10}

NodeIds(ns) == {ns[i].id : i \in DOMAIN ns}
LineIds(ls) == {ls[i].id : i \in DOMAIN ls}

\* App with its initial state: an empty drawing in node mode.
InitEditor ==
    /\ nodes = <<>>
    /\ lines = <<>>
    /\ pc = "editor"
    /\ result = null
    /\ results = null
    /\ prev = NoCall
    /\ op = [kind |-> "none"]
    /\ EditorIdle
    /\ VerificationIdle
    /\ DownloadIdle("editor")

\* The state a handler started from, kept in prev by the handlers whose end
\* state a property relates to it.
EditorSnapshot ==
    [nodes |-> nodes, lines |-> lines, lineStartNodeId |-> lineStartNodeId,
     selectedElement |-> selectedElement, drawingMode |-> drawingMode]

\* The render after a handler: the new nodes and lines, and results
\* recomputed from them.
RenderAfter(newNodes, newLines, before, how) ==
    /\ pc = "editor"
    /\ nodes' = newNodes
    /\ lines' = newLines
    /\ Len(nodes') <= MaxNodes
    /\ Len(lines') <= MaxLines
    /\ results' = EditorResults(nodes', lines',
                                calculateWeldProperties(nodes', lines'))
    /\ prev' = before
    /\ op' = how
    /\ UNCHANGED <<pc, result, now, verificationVars>>

Render(newNodes, newLines) ==
    RenderAfter(newNodes, newLines, NoCall, [kind |-> "none"])

\* Time passes: the next Date.now() is later.
Tick ==
    /\ pc = "editor"
    /\ now < MaxClock
    /\ now' = now + 1
    /\ UNCHANGED <<engineVars, drawingMode, lineStartNodeId, selectedElement,
                   verificationVars>>

\* The mode buttons: setDrawingMode('node'), setDrawingMode('line').
setDrawingMode(mode) ==
    /\ drawingMode' = mode
    /\ UNCHANGED <<lineStartNodeId, selectedElement>>
    /\ Render(nodes, lines)

handleUpdateNode(nodeId, newX, newY) ==
    /\ UNCHANGED <<drawingMode, lineStartNodeId, selectedElement>>
    /\ Render([i \in DOMAIN nodes |->
                  IF nodes[i].id = nodeId
                  THEN [nodes[i] EXCEPT !.x = ToFixed2(newX), !.y = ToFixed2(newY)]
                  ELSE nodes[i]],
              lines)

handleLineClick(lineId) ==
    /\ selectedElement' = Selected("line", lineId)
    /\ drawingMode' = "node"
    /\ lineStartNodeId' = 0
    /\ Render(nodes, lines)

\* The second click of a line: the line is added unless it would join a node
\* to itself or the pair is joined already.
CompletesLine(nodeId) ==
    /\ lineStartNodeId # nodeId
    /\ ~lineExists(lines, lineStartNodeId, nodeId)

handleNodeClick(nodeId) ==
    /\ IF drawingMode = "line"
       THEN IF lineStartNodeId = 0
            THEN /\ lineStartNodeId' = nodeId
                 /\ selectedElement' = Selected("node", nodeId)
            ELSE /\ lineStartNodeId' = 0
                 /\ selectedElement' = null
       ELSE /\ lineStartNodeId' = nodeId
            /\ selectedElement' = Selected("node", nodeId)
    /\ drawingMode' = "line"
    /\ Render(nodes,
              IF drawingMode = "line" /\ lineStartNodeId # 0 /\ CompletesLine(nodeId)
              THEN Append(lines, NewLine(now, lineStartNodeId, nodeId))
              ELSE lines)

\* What a background click in node mode leaves in op: the point it landed on.
NodeModeClick(finalPoint) ==
    [kind |-> "handleCanvasBackgroundClick", finalPoint |-> finalPoint]

\* A background click in node mode that is near a line: the line is replaced
\* by two lines through a new node.
SplitLine(finalPoint, lineToSplit) ==
    /\ selectedElement' = Selected("node", now)
    /\ UNCHANGED <<drawingMode, lineStartNodeId>>
    /\ RenderAfter(Append(nodes, NewNode(now, finalPoint)),
                   SelectSeq(lines, LAMBDA l : l.id # lineToSplit.id)
                       \o <<NewLine(now + 1, lineToSplit.startNodeId, now),
                            NewLine(now + 2, now, lineToSplit.endNodeId)>>,
                   EditorSnapshot, NodeModeClick(finalPoint))

\* A background click in node mode away from every line: a standalone node.
AddStandaloneNode(finalPoint) ==
    /\ selectedElement' = Selected("node", now)
    /\ UNCHANGED <<drawingMode, lineStartNodeId>>
    /\ RenderAfter(Append(nodes, NewNode(now, finalPoint)), lines,
                   EditorSnapshot, NodeModeClick(finalPoint))

\* A background click in line mode: a node is added, and it starts a line or
\* ends the one that was started.
AddLineNode(finalPoint) ==
    /\ UNCHANGED drawingMode
    /\ IF lineStartNodeId = 0
       THEN /\ lineStartNodeId' = now
            /\ selectedElement' = Selected("node", now)
            /\ Render(Append(nodes, NewNode(now, finalPoint)), lines)
       ELSE /\ lineStartNodeId' = 0
            /\ IF lineExists(lines, lineStartNodeId, now)
               THEN /\ selectedElement' = null
                    /\ Render(Append(nodes, NewNode(now, finalPoint)), lines)
               ELSE /\ selectedElement' = Selected("line", now + 1)
                    /\ Render(Append(nodes, NewNode(now, finalPoint)),
                              Append(lines, NewLine(now + 1, lineStartNodeId, now)))

BackgroundClickAt(finalPoint) ==
    IF drawingMode = "node"
    THEN \E lineToSplit \in {FirstNear(finalPoint, linesWithCoords(nodes, lines))} :
             IF lineToSplit # undefined
             THEN SplitLine(finalPoint, lineToSplit)
             ELSE AddStandaloneNode(finalPoint)
    ELSE AddLineNode(finalPoint)

\* handleCanvasBackgroundClick(point) under the snap settings of the moment
\* (the snap checkbox and the grid radio buttons change nothing else).
handleCanvasBackgroundClick(point, snapToGrid, gridSize) ==
    \E finalPoint \in {FinalPoint(point, snapToGrid, gridSize)} :
        BackgroundClickAt(finalPoint)

handleReset ==
    /\ selectedElement' = null
    /\ lineStartNodeId' = 0
    /\ drawingMode' = "node"
    /\ Render(<<>>, <<>>)

\* Deleted without its lines.
handleDeleteNodeOnly(nodeId) ==
    /\ selectedElement' =
           IF selectedElement = Selected("node", nodeId) THEN null
           ELSE selectedElement
    /\ lineStartNodeId' = IF lineStartNodeId = nodeId THEN 0 ELSE lineStartNodeId
    /\ UNCHANGED drawingMode
    /\ RenderAfter(SelectSeq(nodes, LAMBDA n : n.id # nodeId), lines,
                   EditorSnapshot,
                   [kind |-> "handleDeleteNode", nodeId |-> nodeId])

handleDeleteNode(nodeId) ==
    /\ selectedElement' =
           IF selectedElement = Selected("node", nodeId) THEN null
           ELSE selectedElement
    /\ lineStartNodeId' = IF lineStartNodeId = nodeId THEN 0 ELSE lineStartNodeId
    /\ UNCHANGED drawingMode
    /\ RenderAfter(SelectSeq(nodes, LAMBDA n : n.id # nodeId),
                   SelectSeq(lines, LAMBDA l : l.startNodeId # nodeId
                                               /\ l.endNodeId # nodeId),
                   EditorSnapshot,
                   [kind |-> "handleDeleteNode", nodeId |-> nodeId])

\* lines.find(l => l.id === lineId): the first line with that id.
linesFind(ls, lineId) ==
    IF \E i \in DOMAIN ls : ls[i].id = lineId
    THEN ls[CHOOSE i \in DOMAIN ls :
              ls[i].id = lineId /\ \A j \in DOMAIN ls : ls[j].id = lineId => i <= j]
    ELSE undefined

remainingLines(ls, lineId) == SelectSeq(ls, LAMBDA l : l.id # lineId)

\* The ends of the removed line that no remaining line touches.
orphanedNodeIds(ls, lineToRemove) ==
    {id \in {lineToRemove.startNodeId, lineToRemove.endNodeId} :
        ~\E i \in DOMAIN remainingLines(ls, lineToRemove.id) :
            \/ remainingLines(ls, lineToRemove.id)[i].startNodeId = id
            \/ remainingLines(ls, lineToRemove.id)[i].endNodeId = id}

\* handleDeleteLine(lineId); confirmed is the answer to window.confirm, asked
\* when some node is orphaned.
handleDeleteLine(lineId, confirmed) ==
    /\ linesFind(lines, lineId) # undefined
    /\ confirmed => orphanedNodeIds(lines, linesFind(lines, lineId)) # {}
    /\ selectedElement' =
           IF selectedElement = Selected("line", lineId) THEN null
           ELSE selectedElement
    /\ UNCHANGED <<drawingMode, lineStartNodeId>>
    /\ Render(IF confirmed
              THEN SelectSeq(nodes, LAMBDA n :
                       n.id \notin orphanedNodeIds(lines, linesFind(lines, lineId)))
              ELSE nodes,
              remainingLines(lines, lineId))

ClickMode == \E mode \in {"node", "line"} : setDrawingMode(mode)
MoveNode ==
    \E nodeId \in NodeIds(nodes), p \in ClickPoints :
        handleUpdateNode(nodeId, p.x, p.y)
ClickLine == \E lineId \in LineIds(lines) : handleLineClick(lineId)
ClickNode == \E nodeId \in NodeIds(nodes) : handleNodeClick(nodeId)
ClickBackground ==
    \E point \in ClickPoints, snapToGrid \in BOOLEAN, gridSize \in GridSizes :
        handleCanvasBackgroundClick(point, snapToGrid, gridSize)
DeleteNode == \E nodeId \in NodeIds(nodes) : handleDeleteNode(nodeId)
DeleteLine ==
    \E lineId \in LineIds(lines), confirmed \in BOOLEAN :
        handleDeleteLine(lineId, confirmed)

NextEditor ==
    \/ Tick
    \/ ClickMode
    \/ MoveNode
    \/ ClickLine
    \/ ClickNode
    \/ ClickBackground
    \/ handleReset
    \/ DeleteNode
    \/ DeleteLine
SpecEditor == InitEditor /\ [][NextEditor]_vars

\* ------------------------------------------------------------------------
\* The PDF downloads (App.handleDownloadPdf, VerificationPage.handleDownload)
\* ------------------------------------------------------------------------

\* pdf.internal.pageSize.getHeight(): heights are counted in quarters of a
\* page.
pdfHeight == 4

\* The tallest image html2canvas returns.
MaxImgHeight == 9

ImgHeights == 1..MaxImgHeight

\* handleDownloadPdf: while (heightLeft >= 0) { pdf.addPage(); ...;
\* heightLeft -= pdfHeight }, counting the pages.
RECURSIVE reportLoop(_, _)
reportLoop(heightLeft, pages) ==
    IF heightLeft >= 0 THEN reportLoop(heightLeft - pdfHeight, pages + 1)
    ELSE pages

\* The pages handleDownloadPdf puts in the file: the first image, then the
\* loop from heightLeft = imgHeight - pdfHeight.
reportPages(imgHeight) == reportLoop(imgHeight - pdfHeight, 1)

\* handleDownload: while (heightLeft > 0) { pdf.addPage(); ...;
\* heightLeft -= pdfHeight }, counting the pages.
RECURSIVE verificationLoop(_, _)
verificationLoop(heightLeft, pages) ==
    IF heightLeft > 0 THEN verificationLoop(heightLeft - pdfHeight, pages + 1)
    ELSE pages

verificationPages(imgHeight) == verificationLoop(imgHeight - pdfHeight, 1)

\* The drawings the report is downloaded for: none, and the first example.
Drawings ==
    {[nodes |-> <<>>, lines |-> <<>>],
     [nodes |-> verificationExamples[1].nodes,
      lines |-> verificationExamples[1].lines]}

\* App on the editor view with a drawing, nothing downloading.
InitDownload ==
    /\ \E drawing \in Drawings : nodes = drawing.nodes /\ lines = drawing.lines
    /\ pc = "app"
    /\ result = null
    /\ results = EditorResults(nodes, lines, calculateWeldProperties(nodes, lines))
    /\ prev = NoCall
    /\ op = [kind |-> "none"]
    /\ EditorIdle
    /\ VerificationIdle
    /\ DownloadIdle("editor")

\* A download handler that has passed its first synchronous part.
Started == [at |-> "timer", imgHeight |-> 0, pages |-> 0, mounted |-> TRUE]

Running(call) == call.at \in {"timer", "html2canvas"}

\* The view buttons: setView('editor'), setView('report'),
\* setView('verification').  VerificationPage is rendered on the verification
\* view only: leaving it unmounts the page, and a page mounted again starts
\* with isDownloading false; a call of handleDownload goes on without its
\* page.  The page is not mounted again while such a call is running, so
\* that one call at a time is in flight.
setView(v) ==
    /\ pc = "app"
    /\ v # view
    /\ v = "verification" => ~Running(verificationCall)
    /\ view' = v
    /\ isDownloading' = FALSE
    /\ verificationCall' = [verificationCall EXCEPT !.mounted = FALSE]
    /\ UNCHANGED <<engineVars, editorVars, summaryData, report, saved, row,
                   appIsDownloading, pdfCall>>

\* A click on "Download as PDF" (on the report view, disabled without lines
\* and while isDownloading): handleDownloadPdf up to its first await.
handleDownloadPdf ==
    /\ pc = "app"
    /\ view = "report"
    /\ ~(Len(lines) = 0 \/ appIsDownloading)
    /\ appIsDownloading' = TRUE
    /\ pdfCall' = Started
    /\ UNCHANGED <<engineVars, editorVars, summaryData, isDownloading, report,
                   saved, row, view, verificationCall>>

\* After the 50 ms: print-view-content is in the document when isDownloading
\* and the view is the report; without it setIsDownloading(false) and return,
\* with it html2canvas is called.
PdfTimerFires ==
    /\ pc = "app"
    /\ pdfCall.at = "timer"
    /\ IF appIsDownloading /\ view = "report"
       THEN /\ pdfCall' = [pdfCall EXCEPT !.at = "html2canvas"]
            /\ UNCHANGED appIsDownloading
       ELSE /\ pdfCall' = NoDownload
            /\ appIsDownloading' = FALSE
    /\ UNCHANGED <<engineVars, editorVars, summaryData, isDownloading, report,
                   saved, row, view, verificationCall>>

\* The promise of html2canvas settles.  Fulfilled, with an image of some
\* height, the pages are added, the file is saved and
\* setIsDownloading(false); rejected, the await throws and the handler ends
\* there.
PdfCanvasSettles ==
    /\ pc = "app"
    /\ pdfCall.at = "html2canvas"
    /\ \/ \E imgHeight \in ImgHeights :
             /\ pdfCall' = [pdfCall EXCEPT !.at = "saved",
                                           !.imgHeight = imgHeight,
                                           !.pages = reportPages(imgHeight)]
             /\ appIsDownloading' = FALSE
       \/ /\ pdfCall' = [pdfCall EXCEPT !.at = "rejected"]
          /\ UNCHANGED appIsDownloading
    /\ UNCHANGED <<engineVars, editorVars, summaryData, isDownloading, report,
                   saved, row, view, verificationCall>>

\* A click on "Download Verification PDF" of a card (disabled while
\* isDownloading): handleDownload(example) up to its first await.
handleDownload(example) ==
    /\ pc = "app"
    /\ view = "verification"
    /\ ~isDownloading
    /\ Cardinality(saved \cup {example.id}) <= MaxSaved
    /\ HandleDownload(example,
                      calculateWeldProperties(example.nodes, example.lines))
    /\ verificationCall' = IF isDownloading' THEN Started ELSE verificationCall
    /\ UNCHANGED <<engineVars, editorVars, summaryData, saved, row, view,
                   appIsDownloading, pdfCall>>

\* After the 100 ms html2canvas is called on the temporary container.
VerificationTimerFires ==
    /\ pc = "app"
    /\ verificationCall.at = "timer"
    /\ verificationCall' = [verificationCall EXCEPT !.at = "html2canvas"]
    /\ UNCHANGED <<engineVars, editorVars, summaryData, isDownloading, report,
                   saved, row, view, appIsDownloading, pdfCall>>

\* The promise of html2canvas settles.  Fulfilled, the pages are added, the
\* file is saved, the container is removed and setIsDownloading(false), which
\* does nothing once the page is unmounted; rejected, the await throws and
\* the handler ends there.
VerificationCanvasSettles ==
    /\ pc = "app"
    /\ verificationCall.at = "html2canvas"
    /\ \/ \E imgHeight \in ImgHeights :
             /\ verificationCall' =
                    [verificationCall EXCEPT !.at = "saved",
                                             !.imgHeight = imgHeight,
                                             !.pages = verificationPages(imgHeight)]
             /\ saved' = saved \cup {report.example}
             /\ report' = null
             /\ isDownloading' =
                    IF verificationCall.mounted THEN FALSE ELSE isDownloading
       \/ /\ verificationCall' = [verificationCall EXCEPT !.at = "rejected"]
          /\ UNCHANGED <<isDownloading, report, saved>>
    /\ UNCHANGED <<engineVars, editorVars, summaryData, row, view,
                   appIsDownloading, pdfCall>>

ViewButtons == \E v \in {"editor", "report", "verification"} : setView(v)
DownloadClick ==
    \E i \in DOMAIN verificationExamples : handleDownload(verificationExamples[i])

NextDownload ==
    \/ ViewButtons
    \/ handleDownloadPdf
    \/ PdfTimerFires
    \/ PdfCanvasSettles
    \/ DownloadClick
    \/ VerificationTimerFires
    \/ VerificationCanvasSettles
SpecDownload == InitDownload /\ [][NextDownload]_vars

\* The timers fire and the promises settle: what a handler waits for happens.
SpecDownloadLive ==
    /\ SpecDownload
    /\ WF_vars(PdfTimerFires)
    /\ WF_vars(PdfCanvasSettles)
    /\ WF_vars(VerificationTimerFires)
    /\ WF_vars(VerificationCanvasSettles)

\* ------------------------------------------------------------------------
\* Properties
\* ------------------------------------------------------------------------

\* The Euclidean distance of (x1, y1) and (x2, y2).
Distance(x1, y1, x2, y2) ==
    Sqrt(Add(Mul(Sub(x2, x1), Sub(x2, x1)), Mul(Sub(y2, y1), Sub(y2, y1))))

\* The segment of a line whose endpoints resolve: its endpoints and length.
SegmentOf(ns, l) ==
    LET p == NodeOf(ns, l.startNodeId)
        q == NodeOf(ns, l.endNodeId)
    IN  [x1 |-> p.x, y1 |-> p.y, x2 |-> q.x, y2 |-> q.y,
         len |-> Distance(p.x, p.y, q.x, q.y)]

\* The valid segments of an input: the lines whose endpoint ids both resolve
\* to a node and whose length is not zero.
ValidSegments(ns, ls) ==
    LET valid == SelectSeq(ls, LAMBDA l : ~Dangling(ns, l) /\ ~ZeroLength(ns, l))
    IN  [i \in DOMAIN valid |-> SegmentOf(ns, valid[i])]

\* The sum of F(g) over the segments g of a sequence.
RECURSIVE SumOf(_, _)
SumOf(F(_), segs) ==
    IF segs = <<>> THEN Num(0) ELSE Add(F(Head(segs)), SumOf(F, Tail(segs)))

TotalValidLength(ns, ls) == SumOf(LAMBDA g : g.len, ValidSegments(ns, ls))

Called == pc # "input"

\* C1: the engine returns null for every input whose total valid segment
\* length is 0, and a result whose totalLength is > 0 for every input whose
\* total valid length is > 0.
C1_NullIffNoValidLength ==
    Called =>
        /\ IsZero(TotalValidLength(nodes, lines)) => result = null
        /\ Less(Num(0), TotalValidLength(nodes, lines)) =>
               result # null /\ Less(Num(0), result.totalLength)

\* A result was returned for an input that has invalid lines beside a valid one.
C1_Witness ==
    /\ Called
    /\ result # null
    /\ Len(ValidSegments(nodes, lines)) < Len(lines)

\* C2: with fewer than 2 nodes or with no line there is no result: the engine
\* returns null and the editor's results value is null.
C2_FewerThanTwoNodesOrNoLines ==
    Called /\ (Len(nodes) < 2 \/ Len(lines) = 0) =>
        result = null /\ results = null

\* The engine was called with a single node and a line from it to itself.
C2_Witness ==
    /\ Called
    /\ Len(nodes) = 1
    /\ \E i \in DOMAIN lines :
           lines[i].startNodeId = nodes[1].id /\ lines[i].endNodeId = nodes[1].id
    /\ result = null
    /\ results = null

\* C3: dangling lines are excluded from all sums: the engine returns the
\* same for an input and for that input with its dangling lines removed when
\* lines remain, and null when every line dangles.
C3_DanglingLinesExcluded ==
    /\ Called /\ (\A i \in DOMAIN lines : Dangling(nodes, lines[i])) =>
           result = null
    /\ op.kind = "removeDangling" =>
           /\ lines # <<>> => prev.result = result
           /\ lines = <<>> => prev.result = null

\* Dangling lines were removed from an input that has a result.
C3_Witness ==
    /\ op.kind = "removeDangling"
    /\ Len(lines) < Len(prev.lines)
    /\ prev.result # null
    /\ result = prev.result

\* C4: adding a zero-length line to, or removing the zero-length lines from,
\* an input that has a valid line leaves every field of the result unchanged.
C4_ZeroLengthLinesContributeNothing ==
    /\ op.kind \in {"addZeroLength", "removeZeroLength"}
    /\ ValidSegments(prev.nodes, prev.lines) # <<>>
    => result # null /\ result = prev.result

\* A line between two different nodes at the same coordinates was added to
\* an input that has a result.
C4_Witness ==
    /\ op.kind = "addZeroLength"
    /\ lines[Len(lines)].startNodeId # lines[Len(lines)].endNodeId
    /\ result # null
    /\ result = prev.result

Fields(r) ==
    {r.centroid.x, r.centroid.y, r.inertia.ixx, r.inertia.iyy, r.inertia.ixy,
     r.totalLength, r.extremeDistances.cTop, r.extremeDistances.cBottom,
     r.extremeDistances.cLeft, r.extremeDistances.cRight}

\* C5: for every finite input the engine returns null or a result in which
\* every field is a defined number, never NaN.
C5_EveryFieldDefined ==
    Called => result = null \/ \A v \in Fields(result) : ~IsNaN(v)

\* The midpoint of a segment and its moments about the origin.
MidX(g) == Div(Add(g.x1, g.x2), Num(2))
MidY(g) == Div(Add(g.y1, g.y2), Num(2))
OriginIx(g) ==
    Div(Mul(Add(Add(Mul(g.y1, g.y1), Mul(g.y1, g.y2)), Mul(g.y2, g.y2)), g.len),
        Num(3))
OriginIy(g) ==
    Div(Mul(Add(Add(Mul(g.x1, g.x1), Mul(g.x1, g.x2)), Mul(g.x2, g.x2)), g.len),
        Num(3))
OriginIxy(g) ==
    Div(Mul(Add(Add(Mul(g.x1, g.y1), Mul(g.x2, g.y2)),
                Div(Add(Mul(g.x1, g.y2), Mul(g.x2, g.y1)), Num(2))),
            g.len),
        Num(3))

\* C6: the centroid of a result is the length-weighted average of the
\* midpoints of the valid segments, and totalLength is the sum of their
\* lengths.
C6_CentroidIsWeightedMidpointAverage ==
    Called /\ result # null =>
        LET segs == ValidSegments(nodes, lines)
            total == SumOf(LAMBDA g : g.len, segs)
        IN  /\ result.totalLength = total
            /\ result.centroid.x =
                   Div(SumOf(LAMBDA g : Mul(g.len, MidX(g)), segs), total)
            /\ result.centroid.y =
                   Div(SumOf(LAMBDA g : Mul(g.len, MidY(g)), segs), total)

\* A result for two valid segments of different lengths and an invalid line
\* or none: the centroid is on neither midpoint grid line by accident.
C6_Witness ==
    /\ Called
    /\ result # null
    /\ Len(ValidSegments(nodes, lines)) = 2
    /\ ValidSegments(nodes, lines)[1].len # ValidSegments(nodes, lines)[2].len
    /\ result.centroid.x.d > 2

\* C7: the inertia fields of a result are the summed origin moments of the
\* valid segments less totalLength*cy^2, totalLength*cx^2 and
\* totalLength*cx*cy, each divided by 1000 exactly once.
C7_InertiaByParallelAxisInCm3 ==
    Called /\ result # null =>
        LET segs == ValidSegments(nodes, lines)
            len == result.totalLength
            cx == result.centroid.x
            cy == result.centroid.y
        IN  /\ result.inertia.ixx =
                   Div(Sub(SumOf(OriginIx, segs), Mul(len, Mul(cy, cy))), Num(1000))
            /\ result.inertia.iyy =
                   Div(Sub(SumOf(OriginIy, segs), Mul(len, Mul(cx, cx))), Num(1000))
            /\ result.inertia.ixy =
                   Div(Sub(SumOf(OriginIxy, segs), Mul(len, Mul(cx, cy))), Num(1000))

\* A result whose three inertia fields are all different from zero.
C7_Witness ==
    /\ Called
    /\ result # null
    /\ ~IsZero(result.inertia.ixx)
    /\ ~IsZero(result.inertia.iyy)
    /\ ~IsZero(result.inertia.ixy)

\* The least and the greatest of a non-empty set of numbers.
Least(S) == CHOOSE v \in S : \A w \in S : ~Less(w, v)
Greatest(S) == CHOOSE v \in S : \A w \in S : ~Less(v, w)

Xs(ns) == {ns[i].x : i \in DOMAIN ns}
Ys(ns) == {ns[i].y : i \in DOMAIN ns}

\* (x, y) is outside the bounding box of the nodes ns.
OutsideBox(ns, x, y) ==
    \/ Less(x, Least(Xs(ns))) \/ Less(Greatest(Xs(ns)), x)
    \/ Less(y, Least(Ys(ns))) \/ Less(Greatest(Ys(ns)), y)

\* C8: the extreme distances of a result are cTop = maxY - cy, cBottom =
\* cy - minY, cLeft = cx - minX, cRight = maxX - cx with min and max over all
\* nodes of the input; an added node that no line refers to and that is
\* outside the bounding box changes the extreme distances and leaves the
\* centroid, the inertia and totalLength as they were.
C8_ExtremeDistancesOverAllNodes ==
    /\ Called /\ result # null =>
           /\ result.extremeDistances.cTop =
                  Sub(Greatest(Ys(nodes)), result.centroid.y)
           /\ result.extremeDistances.cBottom =
                  Sub(result.centroid.y, Least(Ys(nodes)))
           /\ result.extremeDistances.cLeft =
                  Sub(result.centroid.x, Least(Xs(nodes)))
           /\ result.extremeDistances.cRight =
                  Sub(Greatest(Xs(nodes)), result.centroid.x)
    /\ op.kind = "addIsolatedNode" /\ prev.result # null =>
           /\ result # null
           /\ result.centroid = prev.result.centroid
           /\ result.inertia = prev.result.inertia
           /\ result.totalLength = prev.result.totalLength
           /\ OutsideBox(prev.nodes, op.x, op.y) =>
                  result.extremeDistances # prev.result.extremeDistances

\* A node outside the bounding box was added to an input that has a result,
\* and the extreme distances changed.
C8_Witness ==
    /\ op.kind = "addIsolatedNode"
    /\ prev.result # null
    /\ OutsideBox(prev.nodes, op.x, op.y)
    /\ result # null
    /\ result.extremeDistances # prev.result.extremeDistances
    /\ result.centroid = prev.result.centroid

Cube(s) == Mul(s, Mul(s, s))

CubeOver12InCm3(d) == Div(Div(Cube(d), Num(12)), Num(1000))

\* C13: a single segment of length d from the origin: up the y axis the
\* centroid is (0, d/2), ixx = d^3/12/1000, iyy = 0, ixy = 0 and
\* totalLength = d; along the x axis the centroid is (d/2, 0), ixx = 0,
\* iyy = d^3/12/1000 and ixy = 0.
C13_SingleAxisAlignedSegment ==
    \A d \in 1..MaxSegmentLength :
        /\ Called /\ nodes = VerticalSegment(d).nodes
                  /\ lines = VerticalSegment(d).lines =>
               /\ result # null
               /\ result.centroid = [x |-> Num(0), y |-> Div(Num(d), Num(2))]
               /\ result.inertia =
                      [ixx |-> CubeOver12InCm3(Num(d)), iyy |-> Num(0),
                       ixy |-> Num(0)]
               /\ result.totalLength = Num(d)
        /\ Called /\ nodes = HorizontalSegment(d).nodes
                  /\ lines = HorizontalSegment(d).lines =>
               /\ result # null
               /\ result.centroid = [x |-> Div(Num(d), Num(2)), y |-> Num(0)]
               /\ result.inertia =
                      [ixx |-> Num(0), iyy |-> CubeOver12InCm3(Num(d)),
                       ixy |-> Num(0)]

\* The engine was called on the vertical segment of length 100 and returned
\* ixx = 250/3 (83.333).
C13_Witness ==
    /\ Called
    /\ nodes = VerticalSegment(100).nodes
    /\ lines = VerticalSegment(100).lines
    /\ result # null
    /\ result.inertia.ixx = Rat(250, 3)
    /\ result.totalLength = Num(100)

\* The example of the catalogue with the given id.
ExampleOf(id) ==
    verificationExamples[CHOOSE i \in DOMAIN verificationExamples :
                            verificationExamples[i].id = id]

\* C14: for the closed 100x50 rectangle the engine returns centroid (50, 25),
\* ixx = 50^2 * (3*100 + 50) / 6 / 1000, cTop = cBottom = 25 and
\* cLeft = cRight = 50.
C14_ClosedRectangle ==
    /\ Called
    /\ nodes = <<Node(1, 0, 0), Node(2, 100, 0), Node(3, 100, 50), Node(4, 0, 50)>>
    /\ lines = <<Line(1, 1, 2), Line(2, 2, 3), Line(3, 3, 4), Line(4, 4, 1)>>
    => /\ result # null
       /\ result.centroid = [x |-> Num(50), y |-> Num(25)]
       /\ result.inertia.ixx =
              Div(Div(Mul(Mul(Num(50), Num(50)),
                          Add(Mul(Num(3), Num(100)), Num(50))),
                      Num(6)),
                  Num(1000))
       /\ result.extremeDistances =
              [cTop |-> Num(25), cBottom |-> Num(25), cLeft |-> Num(50),
               cRight |-> Num(50)]

\* The engine was called on the rectangle example of the catalogue.
C14_Witness ==
    /\ Called
    /\ nodes = ExampleOf("rectangle").nodes
    /\ lines = ExampleOf("rectangle").lines
    /\ result # null
    /\ result.inertia.ixx = Rat(875, 6)

\* C15: for every example of the catalogue the engine returns a result, and
\* each of centroid x, centroid y, Ixx, Iyy and Ixy it computes equals the
\* value of the example's manual formulas (the manual inertia divided by
\* 1000), so every comparison, in the summary and in the report of each
\* example, is a match.
C15_EngineEqualsManualOnEveryExample ==
    /\ pc # "crashed"
    /\ pc = "mounted" =>
           /\ \A i \in DOMAIN verificationExamples :
                  \E k \in DOMAIN summaryData :
                      summaryData[k].exampleTitle = verificationExamples[i].title
           /\ \A k \in DOMAIN summaryData :
                  /\ summaryData[k].appValue = summaryData[k].manualValue
                  /\ summaryData[k].isMatch
    /\ report # null =>
           /\ Len(report.rows) = 5
           /\ \A k \in DOMAIN report.rows :
                  /\ report.rows[k].app = report.rows[k].manual
                  /\ report.rows[k].isMatch

\* The report of the C-shape example is rendered: five matching rows, Iyy
\* 625/12 cm3 on both sides.
C15_Witness ==
    /\ report # null
    /\ report.example = "c-shape"
    /\ Len(report.rows) = 5
    /\ report.rows[4].app = Rat(625, 12)
    /\ report.rows[4].manual = Rat(625, 12)
    /\ \A k \in DOMAIN report.rows : report.rows[k].isMatch

\* |a - b| < 10^-9 for two finite numbers, by the numerator and denominator
\* of the difference (denominators are below 2^31, so a numerator of 3 or
\* more is already too large).
WithinTolerance(a, b) ==
    /\ Sub(a, b).k = "fin"
    /\ Abs(Sub(a, b).n) <= 2
    /\ Abs(Sub(a, b).n) * 1000000000 < Sub(a, b).d

\* The example with the given title.
ExampleTitled(title) ==
    verificationExamples[CHOOSE i \in DOMAIN verificationExamples :
                            verificationExamples[i].title = title]

\* The manual value a comparison of the named property must use: the
\* centroid entries as they are, the inertia entries divided by 1000 once.
ManualValueFor(property, calcs) ==
    CASE property = "Centroid X (mm)" -> calcs.centroidX.result
      [] property = "Centroid Y (mm)" -> calcs.centroidY.result
      [] property = "Ixx (cm3)" -> Div(calcs.Ixx.result, Num(1000))
      [] property = "Iyy (cm3)" -> Div(calcs.Iyy.result, Num(1000))
      [] property = "Ixy (cm3)" -> Div(calcs.Ixy.result, Num(1000))

\* The manual calculations of the example with the given title.
ManualCalcsTitled ==
    [title \in {verificationExamples[i].title : i \in DOMAIN verificationExamples}
       |-> performManualCalculations(ExampleTitled(title))]

\* C16: in every comparison (summary entries, report rows, a row on its own)
\* isMatch is true iff |engine value - manual value| < 1e-9; the manual
\* value of Ixx, Iyy and Ixy is the manual result divided by 1000 once, that
\* of the centroid the manual result itself; a mismatch is a row like any
\* other (the report has its five rows whatever they show).
C16_MatchIffWithinTolerance ==
    /\ \A k \in DOMAIN summaryData :
           /\ summaryData[k].isMatch <=>
                  WithinTolerance(summaryData[k].appValue,
                                  summaryData[k].manualValue)
           /\ summaryData[k].manualValue =
                  ManualValueFor(summaryData[k].property,
                                 ManualCalcsTitled[summaryData[k].exampleTitle])
    /\ report # null =>
           /\ Len(report.rows) = 5
           /\ \A k \in DOMAIN report.rows :
                  /\ report.rows[k].isMatch <=>
                         WithinTolerance(report.rows[k].app,
                                         report.rows[k].manual)
                  /\ report.rows[k].manual =
                         ManualValueFor(report.rows[k].label, report.manualCalcs)
    /\ row # null => (row.isMatch <=> WithinTolerance(row.app, row.manual))

\* A row whose values are exactly 1e-9 apart is shown as a mismatch, beside
\* a summary in which the Ixx entries are matches.
C16_Witness ==
    /\ row # null
    /\ row.app = Rat(1, 1000000000)
    /\ row.manual = Num(0)
    /\ ~row.isMatch
    /\ \E k \in DOMAIN summaryData :
           /\ summaryData[k].property = "Ixx (cm3)"
           /\ summaryData[k].manualValue = Rat(250, 3)
           /\ summaryData[k].isMatch

FiveProperties ==
    {"Centroid X (mm)", "Centroid Y (mm)", "Ixx (cm3)", "Iyy (cm3)", "Ixy (cm3)"}

\* C17: the summary built by VerificationPage has, for each example of the
\* catalogue, exactly one entry for each of the five properties centroid x,
\* centroid y, Ixx, Iyy and Ixy.
C17_SummaryHasFivePropertiesPerExample ==
    pc = "mounted" =>
        \A i \in DOMAIN verificationExamples :
            \A property \in FiveProperties :
                Cardinality({k \in DOMAIN summaryData :
                    /\ summaryData[k].exampleTitle = verificationExamples[i].title
                    /\ summaryData[k].property = property}) = 1

\* The catalogue as it is written: the ids of the seven shapes in order, the
\* number of segments of each, no line that refers to a missing node, and
\* five manual entries for each example.
CatalogueAsNamed ==
    /\ [i \in DOMAIN verificationExamples |-> verificationExamples[i].id] =
           <<"vertical-line", "horizontal-line", "tee-joint",
             "two-vertical-lines", "two-horizontal-lines", "c-shape",
             "rectangle">>
    /\ [i \in DOMAIN verificationExamples |->
            Len(ValidSegments(verificationExamples[i].nodes,
                              verificationExamples[i].lines))] =
           <<1, 1, 2, 2, 2, 3, 4>>
    /\ \A i \in DOMAIN verificationExamples :
           /\ \A j \in DOMAIN verificationExamples[i].lines :
                  ~Dangling(verificationExamples[i].nodes,
                            verificationExamples[i].lines[j])
           /\ DOMAIN performManualCalculations(verificationExamples[i]) =
                  {"centroidX", "centroidY", "Ixx", "Iyy", "Ixy"}

\* C18: the catalogue is the seven shapes (vertical line, horizontal line, L,
\* two vertical lines, two horizontal lines, C channel, closed rectangle),
\* every line of an example refers to nodes of that example, and
\* performManualCalculations has, for every example, the five entries
\* centroidX, centroidY, Ixx, Iyy, Ixy: no example leaves the switch empty,
\* the effect does not throw and every report has its five manual entries.
C18_CatalogueComplete ==
    /\ CatalogueAsNamed
    /\ pc # "crashed"
    /\ report # null =>
           DOMAIN report.manualCalcs =
               {"centroidX", "centroidY", "Ixx", "Iyy", "Ixy"}

\* The report of the last example, the rectangle, is rendered with its five
\* manual entries after the summary was built.
C18_Witness ==
    /\ pc = "mounted"
    /\ report # null
    /\ report.example = "rectangle"
    /\ DOMAIN report.manualCalcs = {"centroidX", "centroidY", "Ixx", "Iyy", "Ixy"}
    /\ Len(summaryData) > 0

\* The unordered pair of node ids a line joins.
Ends(l) == {l.startNodeId, l.endNodeId}

NoTwoLinesJoinTheSamePair(ls) ==
    \A i, j \in DOMAIN ls : i # j => Ends(ls[i]) # Ends(ls[j])

\* A node click that ends a line between two nodes already joined, in
\* either direction.
ConnectsAgain(nodeId) ==
    /\ handleNodeClick(nodeId)
    /\ drawingMode = "line"
    /\ lineStartNodeId # 0
    /\ lineExists(lines, lineStartNodeId, nodeId)

\* C19: after any sequence of editor operations no two lines of the editor
\* join the same unordered pair of node ids, and a click that would join a
\* pair already joined, in either direction, leaves the lines as they were.
C19_NoDuplicateLines ==
    /\ [](pc = "editor" => NoTwoLinesJoinTheSamePair(lines))
    /\ [][\A nodeId \in NodeIds(nodes) : ConnectsAgain(nodeId) => lines' = lines]_vars

\* Whether the line has the node id at an end.
Touches(l, nodeId) == nodeId \in Ends(l)

DistinctIds(seq) == \A i, j \in DOMAIN seq : i # j => seq[i].id # seq[j].id

\* C21: in every editor state the node ids are pairwise distinct and the
\* line ids are pairwise distinct, whatever the clock values the ids were
\* drawn from (the same tick or adjacent ticks included).
C21_IdsAreUnique ==
    pc = "editor" => DistinctIds(nodes) /\ DistinctIds(lines)

\* C22: in every editor state both ends of every line are ids of nodes in
\* the node list; no node click after a line deletion with its orphaned
\* nodes removed makes a line from a node that is gone.
C22_NoDanglingLines ==
    pc = "editor" => \A i \in DOMAIN lines : ~Dangling(nodes, lines[i])

\* a >= 0 (false of NaN)
NotNegative(a) == ~IsNaN(a) /\ ~Less(a, Num(0))

\* The y coordinates, and the x coordinates, of the ends of the segments.
EndYs(segs) == {segs[i].y1 : i \in DOMAIN segs} \cup {segs[i].y2 : i \in DOMAIN segs}
EndXs(segs) == {segs[i].x1 : i \in DOMAIN segs} \cup {segs[i].x2 : i \in DOMAIN segs}

\* C23: whenever a result is returned, ixx >= 0, iyy >= 0 and
\* ixy^2 <= ixx * iyy; ixx = 0 exactly when all valid segments lie on one
\* horizontal line, iyy = 0 exactly when they lie on one vertical line.
C23_InertiaNotNegative ==
    Called /\ result # null =>
        /\ NotNegative(result.inertia.ixx)
        /\ NotNegative(result.inertia.iyy)
        /\ NotNegative(Sub(Mul(result.inertia.ixx, result.inertia.iyy),
                           Mul(result.inertia.ixy, result.inertia.ixy)))
        /\ IsZero(result.inertia.ixx) <=>
               Cardinality(EndYs(ValidSegments(nodes, lines))) = 1
        /\ IsZero(result.inertia.iyy) <=>
               Cardinality(EndXs(ValidSegments(nodes, lines))) = 1

\* Two valid segments on the horizontal line y = 4: ixx is 0 and iyy is not.
C23_Witness ==
    /\ Called
    /\ result # null
    /\ Len(ValidSegments(nodes, lines)) = 2
    /\ EndYs(ValidSegments(nodes, lines)) = {Num(4)}
    /\ IsZero(result.inertia.ixx)
    /\ Less(Num(0), result.inertia.iyy)

\* C24: whenever a result is returned the centroid lies inside the bounding
\* box of the nodes: cTop, cBottom, cLeft and cRight are >= 0,
\* cTop + cBottom = maxY - minY and cLeft + cRight = maxX - minX.
C24_CentroidInsideBoundingBox ==
    Called /\ result # null =>
        /\ NotNegative(result.extremeDistances.cTop)
        /\ NotNegative(result.extremeDistances.cBottom)
        /\ NotNegative(result.extremeDistances.cLeft)
        /\ NotNegative(result.extremeDistances.cRight)
        /\ Add(result.extremeDistances.cTop, result.extremeDistances.cBottom) =
               Sub(Greatest(Ys(nodes)), Least(Ys(nodes)))
        /\ Add(result.extremeDistances.cLeft, result.extremeDistances.cRight) =
               Sub(Greatest(Xs(nodes)), Least(Xs(nodes)))

SquaredDistance(p, v, w) ==
    LET dx == Sub(w.x, v.x)
        dy == Sub(w.y, v.y)
        l2 == Add(Mul(dx, dx), Mul(dy, dy))
        dot == Add(Mul(Sub(p.x, v.x), dx), Mul(Sub(p.y, v.y), dy))
    IN  IF IsZero(l2) \/ ~Less(Num(0), dot) THEN SquaredLength(p, v)
        ELSE IF ~Less(dot, l2) THEN SquaredLength(p, w)
        ELSE Sub(SquaredLength(p, v), Div(Mul(dot, dot), l2))

\* The indices of the resolved lines of ls that pass within 5 of p.
LinesWithinFive(p, ns, ls) ==
    {i \in DOMAIN ls :
        /\ ~Dangling(ns, ls[i])
        /\ Less(SquaredDistance(p, nodesFind(ns, ls[i].startNodeId),
                                nodesFind(ns, ls[i].endNodeId)), Num(25))}

\* after is before with one node more, at p.
OneNodeAddedAt(before, after, p) ==
    /\ Len(after) = Len(before) + 1
    /\ SubSeq(after, 1, Len(before)) = before
    /\ after[Len(after)].x = p.x
    /\ after[Len(after)].y = p.y

\* after is before without its i-th line, followed by a line from that line's
\* start to newId and a line from newId to that line's end.
SplitInTwo(before, after, i, newId) ==
    /\ Len(after) = Len(before) + 1
    /\ SubSeq(after, 1, Len(before) - 1) =
           SubSeq(before, 1, i - 1) \o SubSeq(before, i + 1, Len(before))
    /\ after[Len(before)].startNodeId = before[i].startNodeId
    /\ after[Len(before)].endNodeId = newId
    /\ after[Len(before) + 1].startNodeId = newId
    /\ after[Len(before) + 1].endNodeId = before[i].endNodeId

FirstOf(S) == CHOOSE i \in S : \A j \in S : i <= j

\* C26: a background click in node mode adds exactly one node, at the point;
\* when resolved lines pass within 5 of the point, the first of them is
\* replaced by two lines through the new node and every other line is kept;
\* otherwise the lines are unchanged.
C26_ClickSplitsFirstNearLine ==
    op.kind = "handleCanvasBackgroundClick" =>
        /\ OneNodeAddedAt(prev.nodes, nodes, op.finalPoint)
        /\ IF LinesWithinFive(op.finalPoint, prev.nodes, prev.lines) = {}
           THEN lines = prev.lines
           ELSE SplitInTwo(prev.lines, lines,
                           FirstOf(LinesWithinFive(op.finalPoint, prev.nodes,
                                                   prev.lines)),
                           nodes[Len(nodes)].id)

\* selectedElement is null, or a node or a line of the drawing.
SelectionExists ==
    \/ selectedElement = null
    \/ selectedElement.type = "node" /\ selectedElement.id \in NodeIds(nodes)
    \/ selectedElement.type = "line" /\ selectedElement.id \in LineIds(lines)

\* C27: the selection never points at a node or a line that is not in the
\* drawing.
C27_SelectionExists == pc = "editor" => SelectionExists

\* C28: a line is being drawn (lineStartNodeId is set) only in line mode.
C28_LineStartOnlyInLineMode ==
    pc = "editor" => (lineStartNodeId # 0 => drawingMode = "line")

\* A call of handleDownloadPdf, of handleDownload, starts in this step.
PdfDownloadStarts == pdfCall' = Started /\ pdfCall # Started
VerificationDownloadStarts ==
    verificationCall' = Started /\ verificationCall # Started

\* C29: isDownloading, of App and of VerificationPage, once true becomes
\* false again, and no download starts while it is true.
C29_DownloadingEnds ==
    /\ appIsDownloading ~> ~appIsDownloading
    /\ isDownloading ~> ~isDownloading
    /\ [][(appIsDownloading => ~PdfDownloadStarts)
          /\ (isDownloading => ~VerificationDownloadStarts)]_vars

\* The least number of pages of height b that cover a height a.
Ceiling(a, b) == (a + b - 1) \div b

\* C30: a saved file has ceil(imgHeight / pdfHeight) pages, from either
\* handler, so both give the same number of pages for the same height.
C30_PageCount ==
    /\ pdfCall.at = "saved" =>
           pdfCall.pages = Ceiling(pdfCall.imgHeight, pdfHeight)
    /\ verificationCall.at = "saved" =>
           verificationCall.pages = Ceiling(verificationCall.imgHeight, pdfHeight)
    /\ (pdfCall.at = "saved" /\ verificationCall.at = "saved"
         /\ pdfCall.imgHeight = verificationCall.imgHeight) =>
           pdfCall.pages = verificationCall.pages

====
